---- MODULE Spec2Model ----
(***************************************************************************)
(* Model of torch/onnx/_internal/registration.py: the opset dispatch       *)
(* function, OverrideDict, _SymbolicFunctionGroup (with the lru_cache on   *)
(* get), SymbolicRegistry and the onnx_symbolic decorators.                *)
(***************************************************************************)
EXTENDS Integers, Sequences, FiniteSets, TLC

VARIABLES registry, cache, last, pending

vars == <<registry, cache, last, pending>>

(* ------------------------------ bounds --------------------------------- *)

\* Opset versions of the registry model: ONNX_BASE_OPSET - Span .. + Span.
Span == 1
\* Largest number of (name, layer, version) entries held by the registry.
MaxEntries == 2
\* Largest number of entries the lru_cache of get holds in the model.
MaxCache == 1
\* Opset versions of the dispatch model: ONNX_BASE_OPSET - DSpanLow .. + DSpanHigh.
DSpanLow == 2
DSpanHigh == 3
\* Largest number of registered versions of the group in the dispatch model.
DMaxKeys == 2
\* Longest sequence of opset versions given to onnx_symbolic.
SymMaxOpsets == 2

(* ----------------------------- constants ------------------------------- *)

ONNX_BASE_OPSET == 9

\* Python's None (a handler result, or no exception raised) and the two
\* exceptions of the module.
None == "None"
AssertionError == "AssertionError"
\* Optional[OpsetVersion] is modelled in the integers: None, and a raised
\* AssertionError, are values no opset version takes.
NoneVersion == -1
AssertionRaised == -2
ValueError == "ValueError"
\* min() of an empty iterable raises ValueError: a value no version takes.
ValueErrorRaised == -3

Versions == (ONNX_BASE_OPSET - Span)..(ONNX_BASE_OPSET + Span)
DVersions == (ONNX_BASE_OPSET - DSpanLow)..(ONNX_BASE_OPSET + DSpanHigh)
Handlers == {"h1", "h2"}

\* Qualified names are strings, modelled as sequences of characters.
NameFoo == <<"a", ":", ":", "f">>
NameBar == <<"a", ":", ":", "g">>
NameBad == <<"b", "a", "d">>
NameColon == <<"a", ":", "b">>
ValidNames == {NameFoo}
InvalidNames == {NameBad, NameColon}
Names == ValidNames \cup InvalidNames

(* ------------------------- dictionaries -------------------------------- *)

EmptyMap == [k \in {} |-> k]

\* d[k] = v on a Python dict.
Put(m, k, v) == [x \in (DOMAIN m) \cup {k} |-> IF x = k THEN v ELSE m[x]]

\* d.pop(k, None) on a Python dict (the popped value is dropped).
Pop(m, k) == [x \in (DOMAIN m) \ {k} |-> m[x]]

\* The merge with the layers in the wrong order: {**overrides, **base}.
Merge_baseWins(b, o) == [k \in (DOMAIN b) \cup (DOMAIN o) |-> IF k \in DOMAIN b THEN b[k] ELSE o[k]]

\* {**base, **overrides}
Merge(b, o) == [k \in (DOMAIN b) \cup (DOMAIN o) |-> IF k \in DOMAIN o THEN o[k] ELSE b[k]]

(* ------------------------ _dispatch_opset_version ----------------------- *)

RECURSIVE sorted(_)
sorted(S) ==
    IF S = {} THEN <<>>
    ELSE LET m == CHOOSE x \in S : \A y \in S : x <= y
         IN <<m>> \o sorted(S \ {m})

\* A downward scan that takes any version at or below the target.
RECURSIVE ScanDown_noAnchor(_, _, _)
ScanDown_noAnchor(available_versions, i, target) ==
    IF i = 0 THEN NoneVersion
    ELSE IF available_versions[i] <= target
         THEN available_versions[i]
         ELSE ScanDown_noAnchor(available_versions, i - 1, target)

\* for version in reversed(available_versions): first hit of the downward scan.
RECURSIVE ScanDown(_, _, _)
ScanDown(available_versions, i, target) ==
    IF i = 0 THEN NoneVersion
    ELSE IF ONNX_BASE_OPSET <= available_versions[i] /\ available_versions[i] <= target
         THEN available_versions[i]
         ELSE ScanDown(available_versions, i - 1, target)

\* for version in available_versions: first hit of the upward scan.
RECURSIVE ScanUp(_, _, _)
ScanUp(available_versions, i, target) ==
    IF i > Len(available_versions) THEN NoneVersion
    ELSE IF target <= available_versions[i] /\ available_versions[i] <= ONNX_BASE_OPSET
         THEN available_versions[i]
         ELSE ScanUp(available_versions, i + 1, target)

\* The no-match path without its assert.
NoMatchAssert_absent(available_versions, target) == TRUE

\* The assert on the no-match path.
NoMatchAssert(available_versions, target) ==
    \/ Len(available_versions) = 0
    \/ (ONNX_BASE_OPSET <= target /\ target < available_versions[1])
    \/ (available_versions[Len(available_versions)] < ONNX_BASE_OPSET
        /\ ONNX_BASE_OPSET < target)

_dispatch_opset_version(target, available_opsets) ==
    IF available_opsets = {} THEN NoneVersion
    ELSE LET available_versions == sorted(available_opsets)
             down == ScanDown(available_versions, Len(available_versions), target)
             up == ScanUp(available_versions, 1, target)
         IN IF down # NoneVersion THEN down
            ELSE IF up # NoneVersion THEN up
            ELSE IF NoMatchAssert(available_versions, target) THEN NoneVersion
            ELSE AssertionRaised

(* ----------------------------- OverrideDict ----------------------------- *)

OverrideDict_init == [base |-> EmptyMap, overrides |-> EmptyMap, merged |-> EmptyMap]

\* An override that leaves the merged view alone.
override_layerOnly(d, key, value) ==
    [d EXCEPT !.overrides = Put(@, key, value)]

override(d, key, value) ==
    [d EXCEPT !.overrides = Put(@, key, value), !.merged = Put(@, key, value)]

\* A removal that deletes the key from both layers.
remove_override_bothLayers(d, key) ==
    LET b == Pop(d.base, key)
        o == Pop(d.overrides, key)
    IN [d EXCEPT !.base = b, !.overrides = o, !.merged = Merge(b, o)]

\* A removal that deletes the key from the merged view instead of merging anew.
remove_override_dropKey(d, key) ==
    [d EXCEPT !.overrides = Pop(@, key), !.merged = Pop(@, key)]

remove_override(d, key) ==
    LET o == Pop(d.overrides, key)
    IN [d EXCEPT !.overrides = o, !.merged = Merge(d.base, o)]

overridden(d, key) == key \in DOMAIN d.overrides

\* A base-membership test that looks at the merged view.
in_base_merged(d, key) == key \in DOMAIN d.merged

in_base(d, key) == key \in DOMAIN d.base

\* A base insertion that leaves the merged view alone.
OverrideDict_setitem_layerOnly(d, key, value) ==
    [d EXCEPT !.base = Put(@, key, value)]

OverrideDict_setitem(d, key, value) ==
    LET b == Put(d.base, key, value)
    IN [d EXCEPT !.base = b, !.merged = Merge(b, d.overrides)]

\* __iter__ / __contains__ / __bool__ read the merged view only.
OverrideDict_keys(d) == DOMAIN d.merged

OverrideDict_getitem(d, key) == d.merged[key]

(* ------------------------ _SymbolicFunctionGroup ------------------------ *)
\* A group is represented by its _functions OverrideDict; its name is the
\* key under which the registry holds it.

\* The body of get, without the lru_cache.
get(functions, opset) ==
    LET version == _dispatch_opset_version(opset, OverrideDict_keys(functions))
    IN IF version = AssertionRaised THEN AssertionError
       ELSE IF version = NoneVersion THEN None
       ELSE OverrideDict_getitem(functions, version)

add(functions, func, opset) == OverrideDict_setitem(functions, opset, func)

add_custom(functions, func, opset) == override(functions, opset, func)

\* A removal without the overridden check, deleting the version outright.
remove_custom_unchecked(functions, opset) ==
    [functions EXCEPT !.overrides = Pop(@, opset), !.merged = Pop(@, opset)]

remove_custom(functions, opset) ==
    IF ~overridden(functions, opset) THEN functions
    ELSE remove_override(functions, opset)

\* The least key of the base layer, whatever the custom layer holds.
get_min_supported_baseOnly(functions) ==
    IF DOMAIN functions.base = {} THEN ValueErrorRaised
    ELSE CHOOSE v \in DOMAIN functions.base :
             \A w \in DOMAIN functions.base : v <= w

\* min(self._functions): the least key the OverrideDict iterates over.
get_min_supported(functions) ==
    IF OverrideDict_keys(functions) = {} THEN ValueErrorRaised
    ELSE CHOOSE v \in OverrideDict_keys(functions) :
             \A w \in OverrideDict_keys(functions) : v <= w

\* A write that forgets to clear the cache.
cache_clear_forgotten(c) == c

\* self.get.cache_clear(): the lru_cache is one cache for all groups.
cache_clear(c) == EmptyMap

\* A cache keyed by the opset alone, whatever the group.
lru_get_anyGroup(reg, c, name, opset) ==
    IF \E k \in DOMAIN c : k[2] = opset
    THEN c[CHOOSE k \in DOMAIN c : k[2] = opset]
    ELSE get(reg[name], opset)

\* What a call of the cached get returns in the current state.
lru_get(reg, c, name, opset) ==
    IF <<name, opset>> \in DOMAIN c THEN c[<<name, opset>>]
    ELSE get(reg[name], opset)

\* The cache after that call: results are stored, exceptions are not.
lru_store(reg, c, name, opset) ==
    IF <<name, opset>> \in DOMAIN c THEN c
    ELSE IF get(reg[name], opset) = AssertionError THEN c
    ELSE Put(c, <<name, opset>>, get(reg[name], opset))

(* --------------------------- SymbolicRegistry --------------------------- *)

\* A check for ":" in place of "::".
HasSeparator_singleColon(name) ==
    \E i \in 1..Len(name) : name[i] = ":"

\* "::" in name
HasSeparator(name) ==
    \E i \in 1..(Len(name) - 1) : name[i] = ":" /\ name[i + 1] = ":"

all_functions(reg) == DOMAIN reg

\* self._registry.setdefault(name, _SymbolicFunctionGroup(name))
setdefault(reg, name) == IF name \in DOMAIN reg THEN reg ELSE Put(reg, name, OverrideDict_init)

\* The (name, layer, version) entries the registry holds.
Entries(reg) ==
    UNION {{<<n, "base", v>> : v \in DOMAIN reg[n].base} : n \in DOMAIN reg} \cup
    UNION {{<<n, "overrides", v>> : v \in DOMAIN reg[n].overrides} : n \in DOMAIN reg}

\* The registry after register(name, opset, func, custom) on a valid name.
register(reg, name, opset, func, custom) ==
    LET r == setdefault(reg, name)
    IN IF custom THEN [r EXCEPT ![name] = add_custom(@, func, opset)]
       ELSE [r EXCEPT ![name] = add(@, func, opset)]

\* An unregister that drops a group left without handlers.
unregister_dropEmpty(reg, name, opset) ==
    IF name \notin DOMAIN reg THEN reg
    ELSE IF remove_custom(reg[name], opset).merged = EmptyMap
    THEN [n \in DOMAIN reg \ {name} |-> reg[n]]
    ELSE [reg EXCEPT ![name] = remove_custom(@, opset)]

\* The registry after unregister(name, opset).
unregister(reg, name, opset) ==
    IF name \notin DOMAIN reg THEN reg
    ELSE [reg EXCEPT ![name] = remove_custom(@, opset)]

\* A membership test on the name alone.
is_registered_op_nameOnly(reg, c, name, version) == name \in DOMAIN reg

\* is_registered_op raises what the cached get of the group raises.
is_registered_op_raises(reg, c, name, version) ==
    /\ name \in DOMAIN reg
    /\ lru_get(reg, c, name, version) = AssertionError

\* get_function_group(name): the group, or None.
get_function_group(reg, name) ==
    IF name \in DOMAIN reg THEN reg[name] ELSE None

\* The return value of is_registered_op when the cached get does not raise.
is_registered_op(reg, c, name, version) ==
    IF name \notin DOMAIN reg THEN FALSE
    ELSE lru_get(reg, c, name, version) # None

(* ------------------------------ actions --------------------------------- *)
\* registry and cache are the state of the program.  pending holds the calls
\* in progress when calls of two threads interleave: the get of the reader
\* and the register or unregister of the writer, each at the statement it
\* has reached; no call is in progress otherwise.  last is the record of
\* the latest register or unregister call: what it raised, whether it
\* warned and, when it changed the registry, its arguments.  The value a
\* get or an is_registered_op call returns is lru_get / is_registered_op in
\* the state the call is made in.

\* register, taken while the registry stays within maxEntries entries.
RegisterWithin(name, opset, func, custom, maxEntries) ==
    IF ~HasSeparator(name)
    THEN /\ last' = [op |-> "register", raised |-> ValueError]
         /\ UNCHANGED <<registry, cache, pending>>
    ELSE /\ Cardinality(Entries(register(registry, name, opset, func, custom)))
              <= maxEntries
         /\ registry' = register(registry, name, opset, func, custom)
         /\ cache' = cache_clear(cache)
         /\ last' = [op |-> "register", raised |-> None,
                     name |-> name, version |-> opset,
                     func |-> func, custom |-> custom,
                     warned |-> (~custom /\ name \in DOMAIN registry
                                 /\ in_base(registry[name], opset))]
         /\ UNCHANGED pending

Register(name, opset, func, custom) ==
    RegisterWithin(name, opset, func, custom, MaxEntries)

Unregister(name, opset) ==
    IF name \notin DOMAIN registry
    THEN /\ last' = [op |-> "unregister", raised |-> None,
                     warned |-> FALSE, removed |-> FALSE]
         /\ UNCHANGED <<registry, cache, pending>>
    ELSE /\ registry' = unregister(registry, name, opset)
         /\ cache' = IF overridden(registry[name], opset)
                     THEN cache_clear(cache) ELSE cache
         /\ last' = IF overridden(registry[name], opset)
                    THEN [op |-> "unregister", raised |-> None,
                          name |-> name, version |-> opset,
                          warned |-> FALSE, removed |-> TRUE]
                    ELSE [op |-> "unregister", raised |-> None,
                          warned |-> TRUE, removed |-> FALSE]
         /\ UNCHANGED pending

\* get_function_group(name).get(opset) on a registered name.
Get(name, opset) ==
    /\ name \in DOMAIN registry
    /\ \/ <<name, opset>> \in DOMAIN cache
       \/ Cardinality(DOMAIN cache) < MaxCache
    /\ cache' = lru_store(registry, cache, name, opset)
    /\ UNCHANGED <<registry, last, pending>>

IsRegisteredOp(name, version) ==
    IF name \notin DOMAIN registry
    THEN UNCHANGED <<registry, cache, last, pending>>
    ELSE /\ \/ <<name, version>> \in DOMAIN cache
            \/ Cardinality(DOMAIN cache) < MaxCache
         /\ cache' = lru_store(registry, cache, name, version)
         /\ UNCHANGED <<registry, last, pending>>

\* get_function_group(name).get_min_supported() on a registered name, and
\* the two registry reads.  None of them writes anything: what they return
\* is get_min_supported / get_function_group / all_functions in the state
\* the call is made in.
GetMinSupported(name) ==
    /\ name \in DOMAIN registry
    /\ UNCHANGED <<registry, cache, last, pending>>

GetFunctionGroup(name) == UNCHANGED <<registry, cache, last, pending>>

AllFunctions == UNCHANGED <<registry, cache, last, pending>>

Init ==
    /\ registry = EmptyMap
    /\ cache = EmptyMap
    /\ last = [op |-> "init", raised |-> None]
    /\ pending = [read |-> <<>>, write |-> <<>>]

\* The calls made: every call on a well-formed name, and one call of each
\* operation on each malformed name (its other arguments are never read).
RegisterArgs ==
    (ValidNames \X Versions \X Handlers \X BOOLEAN)
        \cup (InvalidNames \X {ONNX_BASE_OPSET} \X {"h1"} \X {FALSE})
LookupArgs ==
    (ValidNames \X Versions) \cup (InvalidNames \X {ONNX_BASE_OPSET})

Next ==
    \/ \E a \in RegisterArgs : Register(a[1], a[2], a[3], a[4])
    \/ \E a \in LookupArgs : Unregister(a[1], a[2])
    \/ \E a \in LookupArgs : Get(a[1], a[2])
    \/ \E a \in LookupArgs : IsRegisteredOp(a[1], a[2])
    \/ \E name \in Names : GetMinSupported(name)
    \/ \E name \in Names : GetFunctionGroup(name)
    \/ AllFunctions

Spec == Init /\ [][Next]_vars

(* ------------------- the dispatch function on its own ------------------- *)
\* One group of built-in handlers, with at most DMaxKeys versions of
\* DVersions registered, queried at every target of DVersions.

DRegister(opset, func) == RegisterWithin(NameFoo, opset, func, FALSE, DMaxKeys)

DNext ==
    \/ \E opset \in DVersions, func \in Handlers : DRegister(opset, func)
    \/ \E opset \in DVersions : Get(NameFoo, opset)
    \/ \E version \in DVersions : IsRegisteredOp(NameFoo, version)

SpecDispatch == Init /\ [][DNext]_vars

(* ------------------- onnx_symbolic / custom_onnx_symbolic --------------- *)
\* Decorators are functions from handlers to handlers; the two of the model
\* do not commute.
\* The decorator model registers at the anchor and at the top of Versions.
SymVersions == {ONNX_BASE_OPSET, ONNX_BASE_OPSET + Span}
DecoratorSwap == [h \in Handlers |-> IF h = "h1" THEN "h2" ELSE "h1"]
DecoratorFirst == [h \in Handlers |-> "h1"]

\* The sequences over S of length at most n.
SeqUpTo(S, n) == UNION {[1..k -> S] : k \in 0..n}

\* opset: Union[OpsetVersion, Sequence[OpsetVersion]]
OpsetArgs ==
    {[is_int |-> TRUE, version |-> v] : v \in SymVersions}
        \cup {[is_int |-> FALSE, versions |-> q] :
                 q \in SeqUpTo(SymVersions, SymMaxOpsets)}

\* decorate: Optional[Sequence[Callable]]
DecorateArgs ==
    {[is_none |-> TRUE, value |-> <<>>]}
        \cup {[is_none |-> FALSE, value |-> q] :
                 q \in {<<>>, <<DecoratorSwap>>, <<DecoratorFirst>>,
                        <<DecoratorSwap, DecoratorFirst>>,
                        <<DecoratorFirst, DecoratorSwap>>}}

\* A loop that applies the decorators last to first.
RECURSIVE DecorateLoop_lastFirst(_, _, _)
DecorateLoop_lastFirst(decorate, i, decorated) ==
    IF i > Len(decorate) THEN decorated
    ELSE DecorateLoop_lastFirst(decorate, i + 1,
                                decorate[Len(decorate) + 1 - i][decorated])

\* for decorate_func in decorate: decorated = decorate_func(decorated)
RECURSIVE DecorateLoop(_, _, _)
DecorateLoop(decorate, i, decorated) ==
    IF i > Len(decorate) THEN decorated
    ELSE DecorateLoop(decorate, i + 1, decorate[i][decorated])

\* The value wrapper registers for func.
Decorated(func, decorate) ==
    IF decorate.is_none THEN func ELSE DecorateLoop(decorate.value, 1, func)

\* if isinstance(opset, OpsetVersion): opset = (opset,)
OpsetTuple(opset) == IF opset.is_int THEN <<opset.version>> ELSE opset.versions

\* for opset_version in opset: registry.register(name, opset_version, ...)
RECURSIVE RegisterEach(_, _, _, _, _, _)
RegisterEach(reg, name, opsets, i, decorated, custom) ==
    IF i > Len(opsets) THEN reg
    ELSE RegisterEach(register(reg, name, opsets[i], decorated, custom),
                      name, opsets, i + 1, decorated, custom)

\* onnx_symbolic(name, opset, decorate, custom)(func): what the call raises,
\* the registry it leaves and the function it returns.  The first register
\* raises on a malformed name; with no opset version nothing is registered
\* and nothing is raised.
onnx_symbolic(reg, name, opset, decorate, custom, func) ==
    IF OpsetTuple(opset) # <<>> /\ ~HasSeparator(name)
    THEN [raised |-> ValueError, registry |-> reg, returned |-> None]
    ELSE [raised |-> None,
          registry |-> RegisterEach(reg, name, OpsetTuple(opset), 1,
                                    Decorated(func, decorate), custom),
          returned |-> func]

\* return onnx_symbolic(name, opset, decorate, custom=True)
custom_onnx_symbolic(reg, name, opset, decorate, func) ==
    onnx_symbolic(reg, name, opset, decorate, TRUE, func)

\* A decorator call: last keeps the entry point, the function given, the
\* value registered for it and the function returned.
SymbolicCall(entry, result, opset, decorate, func) ==
    /\ Cardinality(Entries(result.registry)) <= MaxEntries
    /\ registry' = result.registry
    /\ cache' = IF result.raised = None /\ OpsetTuple(opset) # <<>>
                THEN cache_clear(cache) ELSE cache
    /\ last' = IF result.raised # None
               THEN [op |-> entry, raised |-> result.raised]
               ELSE [op |-> entry, raised |-> None, func |-> func,
                     decorated |-> Decorated(func, decorate),
                     returned |-> result.returned]
    /\ UNCHANGED pending

OnnxSymbolic(name, opset, decorate, custom, func) ==
    SymbolicCall("onnx_symbolic",
                 onnx_symbolic(registry, name, opset, decorate, custom, func),
                 opset, decorate, func)

CustomOnnxSymbolic(name, opset, decorate, func) ==
    SymbolicCall("custom_onnx_symbolic",
                 custom_onnx_symbolic(registry, name, opset, decorate, func),
                 opset, decorate, func)

\* The calls made: every call on the well-formed name, and on the malformed
\* name one call that registers and one that does not.
SymbolicArgs ==
    ({NameFoo} \X OpsetArgs \X DecorateArgs \X Handlers)
        \cup ({NameBad}
                \X {[is_int |-> TRUE, version |-> ONNX_BASE_OPSET],
                    [is_int |-> FALSE, versions |-> <<>>]}
                \X {[is_none |-> TRUE, value |-> <<>>]} \X {"h1"})

SymNext ==
    \/ \E a \in SymbolicArgs, custom \in BOOLEAN :
          OnnxSymbolic(a[1], a[2], a[3], custom, a[4])
    \/ \E a \in SymbolicArgs : CustomOnnxSymbolic(a[1], a[2], a[3], a[4])

SpecSymbolic == Init /\ [][SymNext]_vars

(* ----------------------------- two groups ------------------------------ *)
\* The registry with two well-formed names, registered at the versions of
\* SymVersions.
GroupNames == {NameFoo, NameBar}

GroupRegisterArgs ==
    (GroupNames \X SymVersions \X Handlers \X BOOLEAN)
        \cup ({NameBad} \X {ONNX_BASE_OPSET} \X {"h1"} \X {FALSE})
GroupLookupArgs ==
    (GroupNames \X SymVersions) \cup ({NameBad} \X {ONNX_BASE_OPSET})

GroupsNext ==
    \/ \E a \in GroupRegisterArgs : Register(a[1], a[2], a[3], a[4])
    \/ \E a \in GroupLookupArgs : Unregister(a[1], a[2])
    \/ \E a \in GroupLookupArgs : Get(a[1], a[2])
    \/ \E a \in GroupLookupArgs : IsRegisteredOp(a[1], a[2])
    \/ \E name \in GroupNames : GetFunctionGroup(name)
    \/ AllFunctions

SpecGroups == Init /\ [][GroupsNext]_vars

(* --------------------- a reader thread and a writer thread -------------- *)
\* The module takes no lock.  A get on one thread and a register or an
\* unregister on another interleave between any two statements.
\* pending.read is the get in progress, at the statement pc names;
\* pending.write is the register or unregister in progress.  last records
\* how the latest get ended: what it returned or raised.

KeyError == "KeyError"
RuntimeError == "RuntimeError"

ReadAt(pc) == pending.read # <<>> /\ pending.read[1].pc = pc
WriteAt(pc) == pending.write # <<>> /\ pending.write[1].pc = pc

\* The get in progress: its arguments, the statement it is at, the iterator
\* of sorted (the keys of its dictionary, whether _merged still names that
\* dictionary, whether the dictionary has changed size), the version
\* resolved and the result to return.
Reading(name, opset, pc, keys, same_object, resized, version, result) ==
    <<[name |-> name, opset |-> opset, pc |-> pc, keys |-> keys,
       same_object |-> same_object, resized |-> resized,
       version |-> version, result |-> result]>>

\* The reader's get ends: it returns, or raises.
GetEnds(raised, returned) ==
    /\ pending' = [pending EXCEPT !.read = <<>>]
    /\ last' = [op |-> "get", raised |-> raised, returned |-> returned]

\* get(opset) looks the call up in the lru_cache: a hit returns the entry,
\* a miss calls the body.
GetLookup(name, opset) ==
    /\ pending.read = <<>>
    /\ name \in DOMAIN registry
    /\ IF <<name, opset>> \in DOMAIN cache
       THEN /\ GetEnds(None, cache[<<name, opset>>])
            /\ UNCHANGED <<registry, cache>>
       ELSE /\ Cardinality(DOMAIN cache) < MaxCache
            /\ pending' = [pending EXCEPT !.read =
                              Reading(name, opset, "bool", {}, FALSE, FALSE,
                                      NoneVersion, None)]
            /\ UNCHANGED <<registry, cache, last>>

\* if not available_opsets: return None
GetBool ==
    /\ ReadAt("bool")
    /\ pending' = [pending EXCEPT !.read[1].pc =
                      IF OverrideDict_keys(registry[pending.read[1].name]) = {}
                      THEN "store" ELSE "iter"]
    /\ UNCHANGED <<registry, cache, last>>

\* sorted(available_opsets) takes iter(self._merged): the iterator is on the
\* dictionary object _merged names now, with the keys it has now.
GetIter ==
    /\ ReadAt("iter")
    /\ pending' = [pending EXCEPT !.read =
                      Reading(pending.read[1].name, pending.read[1].opset, "sorted",
                              OverrideDict_keys(registry[pending.read[1].name]),
                              TRUE, FALSE, NoneVersion, None)]
    /\ UNCHANGED <<registry, cache, last>>

\* sorted consumes the iterator, which raises when its dictionary has
\* changed size; the scans and the assert then run on the sorted list.
GetDispatch ==
    /\ ReadAt("sorted")
    /\ LET r == pending.read[1]
           version == _dispatch_opset_version(r.opset, r.keys)
       IN IF r.resized
          THEN GetEnds(RuntimeError, None)
          ELSE IF version = AssertionRaised
          THEN GetEnds(AssertionError, None)
          ELSE /\ pending' = [pending EXCEPT !.read =
                                 Reading(r.name, r.opset,
                                         IF version = NoneVersion
                                         THEN "store" ELSE "getitem",
                                         {}, FALSE, FALSE, version, None)]
               /\ last' = last
    /\ UNCHANGED <<registry, cache>>

\* return self._functions[version]
GetItem ==
    /\ ReadAt("getitem")
    /\ LET r == pending.read[1]
       IN IF r.version \in OverrideDict_keys(registry[r.name])
          THEN /\ pending' = [pending EXCEPT !.read =
                                 Reading(r.name, r.opset, "store", {}, FALSE, FALSE,
                                         r.version,
                                         OverrideDict_getitem(registry[r.name],
                                                              r.version))]
               /\ last' = last
          ELSE GetEnds(KeyError, None)
    /\ UNCHANGED <<registry, cache>>

\* The lru_cache stores the result of the body and get returns it.
GetStore ==
    /\ ReadAt("store")
    /\ cache' = Put(cache, <<pending.read[1].name, pending.read[1].opset>>,
                    pending.read[1].result)
    /\ GetEnds(None, pending.read[1].result)
    /\ UNCHANGED registry

\* register on a well-formed name, up to setdefault.
RegisterSetdefault(name, opset, func, custom) ==
    /\ pending.write = <<>>
    /\ HasSeparator(name)
    /\ Cardinality(Entries(register(registry, name, opset, func, custom)))
         <= MaxEntries
    /\ registry' = setdefault(registry, name)
    /\ pending' = [pending EXCEPT !.write =
                      <<[op |-> "register", name |-> name, opset |-> opset,
                         func |-> func, custom |-> custom, pc |-> "layer"]>>]
    /\ UNCHANGED <<cache, last>>

\* unregister of an overridden version, up to remove_override.
UnregisterChecks(name, opset) ==
    /\ pending.write = <<>>
    /\ name \in DOMAIN registry
    /\ overridden(registry[name], opset)
    /\ pending' = [pending EXCEPT !.write =
                      <<[op |-> "unregister", name |-> name, opset |-> opset,
                         pc |-> "layer"]>>]
    /\ UNCHANGED <<registry, cache, last>>

\* The first statement of the dictionary update: self._base[key] = value,
\* self._overrides[key] = value or self._overrides.pop(key, None).
WriteLayer ==
    /\ WriteAt("layer")
    /\ LET w == pending.write[1]
       IN registry' =
            IF w.op = "unregister"
            THEN [registry EXCEPT ![w.name].overrides = Pop(@, w.opset)]
            ELSE IF w.custom
            THEN [registry EXCEPT ![w.name].overrides = Put(@, w.opset, w.func)]
            ELSE [registry EXCEPT ![w.name].base = Put(@, w.opset, w.func)]
    /\ pending' = [pending EXCEPT !.write[1].pc = "merged"]
    /\ UNCHANGED <<cache, last>>

\* The reader's iterator after the second statement of the update: override
\* sets the key in the dictionary object itself, the other two bind _merged
\* to a new dictionary.
IteratorAfter(w) ==
    IF ~ReadAt("sorted") \/ pending.read[1].name # w.name THEN pending.read
    ELSE IF w.op = "register" /\ w.custom
    THEN [pending.read EXCEPT ![1].resized =
            @ \/ (pending.read[1].same_object
                  /\ w.opset \notin OverrideDict_keys(registry[w.name]))]
    ELSE [pending.read EXCEPT ![1].same_object = FALSE]

\* The second statement of the dictionary update: self._merged[key] = value
\* or self._merged = {**self._base, **self._overrides}.
WriteMerged ==
    /\ WriteAt("merged")
    /\ LET w == pending.write[1]
       IN /\ registry' =
               IF w.op = "register" /\ w.custom
               THEN [registry EXCEPT ![w.name].merged = Put(@, w.opset, w.func)]
               ELSE [registry EXCEPT ![w.name].merged =
                        Merge(registry[w.name].base, registry[w.name].overrides)]
          /\ pending' = [pending EXCEPT !.write[1].pc = "clear",
                                        !.read = IteratorAfter(w)]
    /\ UNCHANGED <<cache, last>>

\* self.get.cache_clear(), the last statement of the write.
WriteClear ==
    /\ WriteAt("clear")
    /\ cache' = cache_clear(cache)
    /\ pending' = [pending EXCEPT !.write = <<>>]
    /\ UNCHANGED <<registry, last>>

ConcNext ==
    \/ \E opset \in SymVersions : GetLookup(NameFoo, opset)
    \/ GetBool
    \/ GetIter
    \/ GetDispatch
    \/ GetItem
    \/ GetStore
    \/ \E opset \in SymVersions, func \in Handlers, custom \in BOOLEAN :
          RegisterSetdefault(NameFoo, opset, func, custom)
    \/ \E opset \in SymVersions : UnregisterChecks(NameFoo, opset)
    \/ WriteLayer
    \/ WriteMerged
    \/ WriteClear
    \/ AllFunctions

SpecConcurrent == Init /\ [][ConcNext]_vars

(* ------------------------------ properties ------------------------------ *)

\* C1 (cache coherence): in every state, whatever was written and read
\* before, get(v) returns what the uncached resolution gives on the group's
\* current merged dictionary.
C1_CacheCoherence ==
    \A n \in DOMAIN registry : \A v \in Versions :
        lru_get(registry, cache, n, v) = get(registry[n], v)

\* A result is cached for a group that holds a base and a custom handler.
C1_Witness ==
    /\ \E k \in DOMAIN cache : cache[k] \in Handlers
    /\ \E n \in DOMAIN registry :
         \E v \in DOMAIN registry[n].overrides : v \in DOMAIN registry[n].base

\* The versions of m between the anchor and the target, on either side.
AtOrAboveAnchor(m, target) ==
    {v \in DOMAIN m : ONNX_BASE_OPSET <= v /\ v <= target}
AtOrBelowAnchor(m, target) ==
    {v \in DOMAIN m : target <= v /\ v <= ONNX_BASE_OPSET}

\* The handler the resolution rule of the specification names.
Resolved(m, target) ==
    IF AtOrAboveAnchor(m, target) # {}
    THEN m[CHOOSE v \in AtOrAboveAnchor(m, target) :
             \A w \in AtOrAboveAnchor(m, target) : w <= v]
    ELSE IF AtOrBelowAnchor(m, target) # {}
    THEN m[CHOOSE v \in AtOrBelowAnchor(m, target) :
             \A w \in AtOrBelowAnchor(m, target) : v <= w]
    ELSE None

\* C2 (version resolution): get(target) returns the handler at the greatest
\* version between the anchor and the target, else the handler at the
\* smallest version between the target and the anchor, else absent.
C2_VersionResolution ==
    \A n \in DOMAIN registry : \A target \in DVersions :
        lru_get(registry, cache, n, target) = Resolved(registry[n].merged, target)

\* C3 (a lookup never fails): no get raises; a lookup without a match
\* returns absent.
C3_LookupNeverFails ==
    \A n \in DOMAIN registry : \A target \in DVersions :
        lru_get(registry, cache, n, target) # AssertionError

\* C4 (override precedence): a version with a base and a custom handler
\* resolves to the custom handler, and right after the custom handler is
\* removed it resolves to the base handler.
C4_OverridePrecedence ==
    /\ \A n \in DOMAIN registry :
         \A v \in (DOMAIN registry[n].base) \cap (DOMAIN registry[n].overrides) :
            lru_get(registry, cache, n, v) = registry[n].overrides[v]
    /\ (last.op = "unregister" /\ last.removed
        /\ last.version \in DOMAIN registry[last.name].base) =>
         lru_get(registry, cache, last.name, last.version)
            = registry[last.name].base[last.version]

\* A custom handler was removed from a version that has a base handler.
C4_Witness ==
    /\ last.op = "unregister"
    /\ last.removed
    /\ last.version \in DOMAIN registry[last.name].base

\* C5 as stated: after register(name, version, handler, custom=false)
\* is_registered_op(name, version) is true and get(version) is that handler.
C5_RegisterThenGet ==
    (last.op = "register" /\ last.raised = None /\ ~last.custom) =>
        /\ is_registered_op(registry, cache, last.name, last.version)
        /\ lru_get(registry, cache, last.name, last.version) = last.func

\* C5 (amended): after register(name, version, handler, custom=false)
\* is_registered_op(name, version) is true, and get(version) is that handler
\* unless the version is overridden, when it is the custom handler.
C5_RegisterThenGetUnlessOverridden ==
    (last.op = "register" /\ last.raised = None /\ ~last.custom) =>
        /\ is_registered_op(registry, cache, last.name, last.version)
        /\ lru_get(registry, cache, last.name, last.version) =
             IF last.version \in DOMAIN registry[last.name].overrides
             THEN registry[last.name].overrides[last.version]
             ELSE last.func

\* A base handler was registered over an existing base handler of the group.
C5_Witness ==
    /\ last.op = "register"
    /\ last.raised = None
    /\ ~last.custom
    /\ last.warned
    /\ registry[last.name].merged[last.version] = last.func

\* C6 (name validation): register with a name without "::" raises and
\* changes no group, no name and no lookup result.
C6_InvalidNameRejected ==
    [][(/\ last'.op = "register"
        /\ \E a \in RegisterArgs :
             a[1] \in InvalidNames /\ Register(a[1], a[2], a[3], a[4])) =>
            /\ last'.raised = ValueError
            /\ registry' = registry
            /\ all_functions(registry') = all_functions(registry)
            /\ \A n \in DOMAIN registry : \A v \in Versions :
                 lru_get(registry', cache', n, v) = lru_get(registry, cache, n, v)]_vars

\* A malformed name was rejected by a registry that holds a group.
C6_Witness ==
    /\ last.op = "register"
    /\ last.raised = ValueError
    /\ registry # EmptyMap
    /\ cache # EmptyMap

\* C7 (merge invariant): merged has the keys of base and overrides, with the
\* override value where there is one and the base value elsewhere.
C7_MergedIsBaseWithOverrides ==
    \A n \in DOMAIN registry :
        /\ DOMAIN registry[n].merged =
             (DOMAIN registry[n].base) \cup (DOMAIN registry[n].overrides)
        /\ \A k \in DOMAIN registry[n].merged :
             registry[n].merged[k] =
                IF k \in DOMAIN registry[n].overrides
                THEN registry[n].overrides[k]
                ELSE registry[n].base[k]

\* A group with an override on top of a different base value.
C7_Witness ==
    \E n \in DOMAIN registry :
        \E k \in (DOMAIN registry[n].base) \cap (DOMAIN registry[n].overrides) :
            registry[n].base[k] # registry[n].overrides[k]

\* C8 (override round trip): from every state, add_custom at a version that
\* is not overridden followed by remove_custom of it gives back the group
\* (base, overrides, merged) and the result of every get.
C8_OverrideRoundTrip ==
    \A n \in DOMAIN registry : \A v \in Versions : \A h \in Handlers :
        v \notin DOMAIN registry[n].overrides =>
            LET there == register(registry, n, v, h, TRUE)
                back == unregister(there, n, v)
            IN /\ there[n].merged[v] = h
               /\ back[n] = registry[n]
               /\ \A t \in Versions :
                    lru_get(back, cache_clear(cache), n, t)
                       = lru_get(registry, cache, n, t)
               /\ (v \notin DOMAIN registry[n].base => v \notin DOMAIN back[n].merged)

\* A custom handler was added and removed again on a group with a base
\* handler at another version.
C8_Witness ==
    /\ last.op = "unregister"
    /\ last.removed
    /\ last.version \notin DOMAIN registry[last.name].base
    /\ registry[last.name].base # EmptyMap

\* C9 (redundant removal): remove_custom of a version that is not overridden
\* raises nothing, warns, and changes no layer and no get result.
C9_RedundantRemovalIsNoOp ==
    [][\A n \in DOMAIN registry :
         (/\ last'.op = "unregister"
          /\ \E v \in Versions \ DOMAIN registry[n].overrides : Unregister(n, v)) =>
            /\ last'.raised = None
            /\ last'.warned
            /\ registry' = registry
            /\ \A t \in Versions :
                 lru_get(registry', cache', n, t) = lru_get(registry, cache, n, t)]_vars

\* A redundant removal on a group that has base and custom handlers.
C9_Witness ==
    /\ last.op = "unregister"
    /\ last.warned
    /\ \E n \in DOMAIN registry :
         registry[n].base # EmptyMap /\ registry[n].overrides # EmptyMap

\* C10 as stated: with registered versions, get returns absent only when all
\* of them are below the anchor and the target above it, or all of them
\* above the anchor and the target below it.
C10_AbsentOnlyAcrossAnchor ==
    \A n \in DOMAIN registry : \A target \in DVersions :
        (lru_get(registry, cache, n, target) = None
         /\ DOMAIN registry[n].merged # {}) =>
            \/ /\ \A v \in DOMAIN registry[n].merged : v < ONNX_BASE_OPSET
               /\ ONNX_BASE_OPSET < target
            \/ /\ \A v \in DOMAIN registry[n].merged : ONNX_BASE_OPSET < v
               /\ target < ONNX_BASE_OPSET

\* C10 (amended): with registered versions, get returns absent only when all
\* of them are below the anchor and the target above it, or the target is at
\* or above the anchor and all of them are above the target.
C10_AbsentOnlyBeyondVersions ==
    \A n \in DOMAIN registry : \A target \in DVersions :
        (lru_get(registry, cache, n, target) = None
         /\ DOMAIN registry[n].merged # {}) =>
            \/ /\ \A v \in DOMAIN registry[n].merged : v < ONNX_BASE_OPSET
               /\ ONNX_BASE_OPSET < target
            \/ /\ \A v \in DOMAIN registry[n].merged : target < v
               /\ ONNX_BASE_OPSET <= target

\* get returned absent, and cached it, on a group with registered versions.
C10_Witness ==
    \E k \in DOMAIN cache :
        /\ cache[k] = None
        /\ DOMAIN registry[k[1]].merged # {}

\* C11 (base registrations are permanent): in every step a version of the
\* base layer of a group stays in the base layer, an unregister leaves the
\* base layer as it was, and the handler the base layer holds at a version
\* changes only by a built-in register of that handler at that version.
C11_BasePermanent ==
    [][\A n \in DOMAIN registry :
         /\ n \in DOMAIN registry'
         /\ DOMAIN registry[n].base \subseteq DOMAIN registry'[n].base
         /\ last'.op = "unregister" => registry'[n].base = registry[n].base
         /\ \A v \in DOMAIN registry[n].base :
              registry'[n].base[v] # registry[n].base[v] =>
                  /\ last'.op = "register"
                  /\ last'.raised = None
                  /\ ~last'.custom
                  /\ last'.name = n
                  /\ last'.version = v
                  /\ last'.func = registry'[n].base[v]]_vars

\* A custom handler was removed from a version that has a base handler.
C11_Witness ==
    /\ last.op = "unregister"
    /\ last.removed
    /\ in_base(registry[last.name], last.version)
    /\ ~overridden(registry[last.name], last.version)

\* C12 (minimum supported version): get_min_supported returns the least key
\* of the merged view, base and custom versions together, and raises when
\* the group has no registered version.
C12_MinOfMergedOrError ==
    \A n \in DOMAIN registry :
        IF DOMAIN registry[n].base \cup DOMAIN registry[n].overrides = {}
        THEN get_min_supported(registry[n]) = ValueErrorRaised
        ELSE /\ get_min_supported(registry[n])
                  \in DOMAIN registry[n].base \cup DOMAIN registry[n].overrides
             /\ \A v \in DOMAIN registry[n].base \cup DOMAIN registry[n].overrides :
                  get_min_supported(registry[n]) <= v

\* A group whose only handlers were custom ones, all removed again.
C12_Witness ==
    /\ last.op = "unregister"
    /\ last.removed
    /\ registry[last.name].merged = EmptyMap
    /\ get_min_supported(registry[last.name]) = ValueErrorRaised

\* C13 (lowest built-in version): for a group with a built-in registration,
\* get_min_supported returns the least version of the base layer.
C13_MinIsLowestBuiltIn ==
    \A n \in DOMAIN registry :
        registry[n].base # EmptyMap =>
            /\ get_min_supported(registry[n]) \in DOMAIN registry[n].base
            /\ \A v \in DOMAIN registry[n].base :
                 get_min_supported(registry[n]) <= v

\* C14 (is_registered_op): is_registered_op is true exactly when the group
\* exists and its resolution returns a handler; on a group with an empty
\* merged view every get returns absent and is_registered_op is false.
C14_RegisteredIffResolves ==
    \A n \in Names : \A v \in Versions :
        /\ (/\ ~is_registered_op_raises(registry, cache, n, v)
            /\ is_registered_op(registry, cache, n, v))
               <=> (/\ n \in all_functions(registry)
                    /\ lru_get(registry, cache, n, v) \in Handlers)
        /\ (n \in DOMAIN registry /\ registry[n].merged = EmptyMap) =>
               /\ lru_get(registry, cache, n, v) = None
               /\ ~is_registered_op_raises(registry, cache, n, v)
               /\ ~is_registered_op(registry, cache, n, v)

\* A group emptied of its handlers, with an absent result in the cache.
C14_Witness ==
    \E k \in DOMAIN cache :
        /\ registry[k[1]].merged = EmptyMap
        /\ cache[k] = None
        /\ ~is_registered_op(registry, cache, k[1], k[2])

\* C16 (re-registration): a built-in add raises nothing, warns exactly when
\* the version was already in the base layer, and leaves its handler in the
\* base layer; where the version is overridden, get keeps returning the
\* custom handler.
C16_ReRegistration ==
    [][(/\ last'.op = "register"
        /\ last'.raised = None
        /\ ~last'.custom
        /\ Register(last'.name, last'.version, last'.func, FALSE)) =>
          LET n == last'.name
              v == last'.version
          IN /\ last'.warned <=>
                   (n \in DOMAIN registry /\ v \in DOMAIN registry[n].base)
             /\ registry'[n].base[v] = last'.func
             /\ v \in DOMAIN registry'[n].overrides =>
                   lru_get(registry', cache', n, v) = registry'[n].overrides[v]]_vars

\* A built-in add on a version that only a custom handler held: no warning.
C16_Witness ==
    /\ last.op = "register"
    /\ last.raised = None
    /\ ~last.custom
    /\ ~last.warned
    /\ overridden(registry[last.name], last.version)

\* C17 (monotonic, never across the anchor): for one set of registered
\* versions, a resolved version lies between the anchor and its target, and
\* of two targets that both resolve the smaller never resolves to the
\* greater version.
C17_MonotonicWithinAnchor ==
    \A n \in DOMAIN registry :
        LET available == OverrideDict_keys(registry[n])
        IN \A t1 \in DVersions :
            LET r1 == _dispatch_opset_version(t1, available)
            IN r1 \in available =>
                /\ \/ ONNX_BASE_OPSET <= r1 /\ r1 <= t1
                   \/ t1 <= r1 /\ r1 <= ONNX_BASE_OPSET
                /\ \A t2 \in DVersions :
                     (t1 <= t2 /\ _dispatch_opset_version(t2, available) \in available)
                         => r1 <= _dispatch_opset_version(t2, available)

\* A cached get on a group whose targets resolve on both sides of the anchor.
C17_Witness ==
    /\ \E k \in DOMAIN cache : cache[k] \in Handlers
    /\ \E t1, t2 \in DVersions :
         LET available == OverrideDict_keys(registry[NameFoo])
         IN /\ t1 < t2
            /\ _dispatch_opset_version(t1, available) \in available
            /\ _dispatch_opset_version(t2, available) \in available
            /\ _dispatch_opset_version(t1, available) < ONNX_BASE_OPSET
            /\ ONNX_BASE_OPSET < _dispatch_opset_version(t2, available)

\* d_n(...d_1(h)...) for the decorators d_1 .. d_n in declared order.
RECURSIVE Composition(_, _, _)
Composition(decorators, n, h) ==
    IF n = 0 THEN h ELSE decorators[n][Composition(decorators, n - 1, h)]

\* The group of name before it exists is the empty group.
GroupOrEmpty(reg, name) ==
    IF name \in DOMAIN reg THEN reg[name] ELSE OverrideDict_init

\* C15 (decorator registration): onnx_symbolic applied to h stores, under
\* every version given (a single version counting as a sequence of one), the
\* one value d_n(...d_1(h)...), in the custom layer when custom is set and
\* in the base layer otherwise, leaves the other layer alone and returns h;
\* custom_onnx_symbolic is onnx_symbolic with custom set.
C15_DecoratorRegistration ==
    \A opset \in OpsetArgs, decorate \in DecorateArgs, func \in Handlers :
        LET n == NameFoo
            d == Composition(decorate.value, Len(decorate.value), func)
            versions == IF opset.is_int THEN {opset.version}
                        ELSE {opset.versions[i] : i \in 1..Len(opset.versions)}
        IN /\ \A custom \in BOOLEAN :
                LET r == onnx_symbolic(registry, n, opset, decorate, custom, func)
                IN /\ r.raised = None
                   /\ r.returned = func
                   /\ \A v \in versions :
                        IF custom
                        THEN /\ v \in DOMAIN r.registry[n].overrides
                             /\ r.registry[n].overrides[v] = d
                        ELSE /\ v \in DOMAIN r.registry[n].base
                             /\ r.registry[n].base[v] = d
                   /\ versions # {} =>
                        IF custom
                        THEN r.registry[n].base = GroupOrEmpty(registry, n).base
                        ELSE r.registry[n].overrides
                                 = GroupOrEmpty(registry, n).overrides
           /\ custom_onnx_symbolic(registry, n, opset, decorate, func)
                = onnx_symbolic(registry, n, opset, decorate, TRUE, func)

\* Decorators were applied to a handler, and the decorated value, which is
\* not the handler the call returned, sits at two versions of the base layer.
C15_Witness ==
    /\ last.op = "onnx_symbolic"
    /\ last.raised = None
    /\ last.returned = last.func
    /\ last.decorated # last.func
    /\ \E v, w \in DOMAIN registry[NameFoo].base :
         /\ v # w
         /\ registry[NameFoo].base[v] = last.decorated
         /\ registry[NameFoo].base[w] = last.decorated

\* C18 (atomic invalidation): with a get interleaved with a write, no get
\* raises, the result a get is about to return is the resolution on the
\* current versions of its group, and once the write has completed every
\* entry of the cache is the resolution on the current versions.
C18_AtomicInvalidation ==
    /\ last.op = "get" => last.raised \in {None, AssertionError}
    /\ ReadAt("store") =>
         pending.read[1].result
             = get(registry[pending.read[1].name], pending.read[1].opset)
    /\ pending.write = <<>> =>
         \A k \in DOMAIN cache : cache[k] = get(registry[k[1]], k[2])

\* C19 (registered names): no step removes a name; a name is added only by
\* a successful register of that name; an unregister raises nothing; and a
\* register on a name that has a group keeps every earlier registration of
\* the group but the one it replaces.
C19_NamesOnlyGrow ==
    [][/\ DOMAIN registry \subseteq DOMAIN registry'
       /\ \A n \in DOMAIN registry' \ DOMAIN registry :
            /\ last'.op = "register"
            /\ last'.raised = None
            /\ last'.name = n
            /\ Register(n, last'.version, last'.func, last'.custom)
       /\ last'.op = "unregister" => last'.raised = None
       /\ (/\ last'.op = "register"
           /\ last'.raised = None
           /\ last'.name \in DOMAIN registry
           /\ Register(last'.name, last'.version, last'.func, last'.custom)) =>
             LET old == registry[last'.name]
                 new == registry'[last'.name]
             IN /\ \A w \in DOMAIN old.base :
                     /\ w \in DOMAIN new.base
                     /\ (w # last'.version \/ last'.custom) =>
                            new.base[w] = old.base[w]
                /\ \A w \in DOMAIN old.overrides :
                     /\ w \in DOMAIN new.overrides
                     /\ (w # last'.version \/ ~last'.custom) =>
                            new.overrides[w] = old.overrides[w]]_vars

\* Two names are listed, and the last handler of one of them was removed.
C19_Witness ==
    /\ all_functions(registry) = GroupNames
    /\ last.op = "unregister"
    /\ last.removed
    /\ OverrideDict_keys(registry[last.name]) = {}

\* C20 (isolation of groups): the base layer, the override layer and the
\* get results of a registered name change only in a register or an
\* unregister under that same name.
C20_GroupsIsolated ==
    [][\A B \in DOMAIN registry :
         \/ /\ B \in DOMAIN registry'
            /\ registry'[B] = registry[B]
            /\ \/ cache' = cache
               \/ \A v \in SymVersions :
                    lru_get(registry', cache', B, v) = lru_get(registry, cache, B, v)
         \/ \E a \in GroupRegisterArgs : a[1] = B /\ Register(B, a[2], a[3], a[4])
         \/ \E a \in GroupLookupArgs : a[1] = B /\ Unregister(B, a[2])]_vars

\* A write under one name emptied the shared cache while the other name
\* holds a handler.
C20_Witness ==
    /\ last.op \in {"register", "unregister"}
    /\ last.raised = None
    /\ last.op = "unregister" => last.removed
    /\ last.name = NameFoo
    /\ cache = EmptyMap
    /\ NameBar \in DOMAIN registry
    /\ OverrideDict_keys(registry[NameBar]) # {}

====
